---- MODULE Spec2Model ----
(***************************************************************************)
(* A model of library/parse_ping.py: the Ansible module that builds a ping *)
(* command line, runs it through the module's command runner and parses    *)
(* the output with one regular expression.                                 *)
(*                                                                         *)
(* Texts are sequences of one-character strings, so that joining,          *)
(* formatting and regular-expression matching are computed character by    *)
(* character, as the Python code computes them.                            *)
(***************************************************************************)
EXTENDS Integers, Sequences, FiniteSets, TLC

(***************************************************************************)
(* Bounds of the model.                                                    *)
(***************************************************************************)
\* counts 0..MaxCount are requested (and one two-digit count)
MaxCount == 2
\* ping prints 1..MaxReplies reply lines
MaxReplies == 2
\* at most MaxOpts of the six optional arguments are supplied in a request
MaxOpts == 1

(***************************************************************************)
(* Characters and texts.                                                   *)
(***************************************************************************)
Digit == {"0","1","2","3","4","5","6","7","8","9"}

Lower == {"a","b","c","d","e","f","g","h","i","j","k","l","m",
          "n","o","p","q","r","s","t","u","v","w","x","y","z"}

Upper == {"A","B","C","D","E","F","G","H","I","J","K","L","M",
          "N","O","P","Q","R","S","T","U","V","W","X","Y","Z"}

\* Python's \w on the characters that occur here
Word == Digit \cup Lower \cup Upper \cup {"_"}

\* Python's \s on the characters that occur here
Space == {" ", "\n", "\t"}

DigitChars == <<"0","1","2","3","4","5","6","7","8","9">>

\* str(n) of a non-negative int, as the f-string of line 142 formats it
RECURSIVE NatStr(_)
NatStr(n) ==
    IF n < 10 THEN <<DigitChars[n + 1]>>
    ELSE NatStr(n \div 10) \o <<DigitChars[(n % 10) + 1]>>

\* str(n) of an int
IntStr(n) == IF n < 0 THEN <<"-">> \o NatStr(-n) ELSE NatStr(n)

\* sep.join(parts)
RECURSIVE Join(_, _)
Join(sep, parts) ==
    IF parts = <<>> THEN <<>>
    ELSE IF Len(parts) = 1 THEN parts[1]
    ELSE parts[1] \o sep \o Join(sep, Tail(parts))

\* the text s[i..j-1]
Slice(s, i, j) == SubSeq(s, i, j - 1)

\* does the text lit occur in s at position i
LitAt(s, i, lit) ==
    /\ i + Len(lit) - 1 <= Len(s)
    /\ \A p \in 1..Len(lit) : s[i + p - 1] = lit[p]

(***************************************************************************)
(* The regular expression of line 119, node by node.  A node is            *)
(*   bol     ^ under re.MULTILINE                                          *)
(*   wb      \b                                                            *)
(*   lit     a literal text                                                *)
(*   one     one character of a class                                      *)
(*   greedy  class* or class+ (min = 0 or 1), longest first                *)
(*   lazy    class*?, shortest first                                       *)
(*   open, close   the parentheses of capture group g                      *)
(* and a class is a set of characters, negated or not; "." under re.DOTALL *)
(* is the negated empty class.                                             *)
(***************************************************************************)
Node(t, set, neg, min, lit, g) ==
    [t |-> t, set |-> set, neg |-> neg, min |-> min, lit |-> lit, g |-> g]

Bol == Node("bol", {}, FALSE, 0, <<>>, 0)
Wb == Node("wb", {}, FALSE, 0, <<>>, 0)
Lit(text) == Node("lit", {}, FALSE, 0, text, 0)
One(set) == Node("one", set, FALSE, 0, <<>>, 0)
Star(set, neg) == Node("greedy", set, neg, 0, <<>>, 0)
Plus(set) == Node("greedy", set, FALSE, 1, <<>>, 0)
LazyAny == Node("lazy", {}, TRUE, 0, <<>>, 0)
Open(g) == Node("open", {}, FALSE, 0, <<>>, g)
Close(g) == Node("close", {}, FALSE, 0, <<>>, g)

NGroups == 14

regex ==
    \* ^PING\b[^(]*\(([^)]*)\)\s([^.]*)\.
    << Bol, Lit(<<"P","I","N","G">>), Wb, Star({"("}, TRUE), Lit(<<"(">>),
       Open(1), Star({")"}, TRUE), Close(1), Lit(<<")">>), One(Space),
       Open(2), Star({"."}, TRUE), Close(2), Lit(<<".">>),
    \* .*?^(\d+\sbytes)
       LazyAny, Bol, Open(3), Plus(Digit), One(Space),
       Lit(<<"b","y","t","e","s">>), Close(3),
    \* .*?icmp_seq=(\d+)
       LazyAny, Lit(<<"i","c","m","p","_","s","e","q","=">>),
       Open(4), Plus(Digit), Close(4),
    \* .*?ttl=(\d+)
       LazyAny, Lit(<<"t","t","l","=">>), Open(5), Plus(Digit), Close(5),
    \* .*?time=(.*?ms)
       LazyAny, Lit(<<"t","i","m","e","=">>),
       Open(6), LazyAny, Lit(<<"m","s">>), Close(6),
    \* .*?(\d+)\spackets\stransmitted
       LazyAny, Open(7), Plus(Digit), Close(7), One(Space),
       Lit(<<"p","a","c","k","e","t","s">>), One(Space),
       Lit(<<"t","r","a","n","s","m","i","t","t","e","d">>),
    \* .*?(\d+)\sreceived
       LazyAny, Open(8), Plus(Digit), Close(8), One(Space),
       Lit(<<"r","e","c","e","i","v","e","d">>),
    \* .*?(\d+%)\spacket\sloss
       LazyAny, Open(9), Plus(Digit), Lit(<<"%">>), Close(9), One(Space),
       Lit(<<"p","a","c","k","e","t">>), One(Space), Lit(<<"l","o","s","s">>),
    \* .*?time\s(\d+ms)
       LazyAny, Lit(<<"t","i","m","e">>), One(Space),
       Open(10), Plus(Digit), Lit(<<"m","s">>), Close(10),
    \* .*?=\s([^\/]*)\/([^\/]*)\/([^\/]*)\/(.*?)\sms
       LazyAny, Lit(<<"=">>), One(Space),
       Open(11), Star({"/"}, TRUE), Close(11), Lit(<<"/">>),
       Open(12), Star({"/"}, TRUE), Close(12), Lit(<<"/">>),
       Open(13), Star({"/"}, TRUE), Close(13), Lit(<<"/">>),
       Open(14), LazyAny, Close(14), One(Space), Lit(<<"m","s">>) >>

(***************************************************************************)
(* re.search: a backtracking matcher.  A match object is a record with the *)
(* span <<start, end>> of every group (end exclusive, <<0, 0>> for a group *)
(* that did not take part); None is the record with ok = FALSE.            *)
(***************************************************************************)
None == [ok |-> FALSE, span |-> <<>>]

InClass(c, n) == (c \in n.set) # n.neg

\* ^ under re.MULTILINE: at the start of the text or right after a newline
AtBol(s, i) == i = 1 \/ s[i - 1] = "\n"

IsWordAt(s, i) == i >= 1 /\ i <= Len(s) /\ s[i] \in Word

\* \b: exactly one of the characters around position i is a word character
AtWb(s, i) == IsWordAt(s, i - 1) # IsWordAt(s, i)

\* the end of the longest run of class characters that starts at i: the
\* first position from i on whose character is outside the class
RunEnd(s, i, n) ==
    LET stops == {j \in i..Len(s) : ~InClass(s[j], n)}
    IN  IF stops = {} THEN Len(s) + 1
        ELSE CHOOSE j \in stops : \A p \in stops : j <= p

SetMin(S) == CHOOSE x \in S : \A y \in S : x <= y

IsChoice(n) == n.t \in {"greedy", "lazy"}

\* The nodes from re[k] up to the next repetition (or the end of re) admit
\* one way to match: they are walked here.  The result is where the walk
\* stopped: ok = FALSE on a mismatch, else the next node k, the position i
\* and the groups sp.
RECURSIVE Walk(_, _, _, _, _)
Walk(re, s, k, i, sp) ==
    IF k > Len(re) \/ IsChoice(re[k]) THEN [ok |-> TRUE, k |-> k, i |-> i, sp |-> sp]
    ELSE
    LET n == re[k]
        stuck == [ok |-> FALSE, k |-> k, i |-> i, sp |-> sp]
    IN  CASE n.t = "bol" ->
               IF AtBol(s, i) THEN Walk(re, s, k + 1, i, sp) ELSE stuck
          [] n.t = "wb" ->
               IF AtWb(s, i) THEN Walk(re, s, k + 1, i, sp) ELSE stuck
          [] n.t = "lit" ->
               IF LitAt(s, i, n.lit)
               THEN Walk(re, s, k + 1, i + Len(n.lit), sp) ELSE stuck
          [] n.t = "one" ->
               IF i <= Len(s) /\ InClass(s[i], n)
               THEN Walk(re, s, k + 1, i + 1, sp) ELSE stuck
          [] n.t = "open" ->
               Walk(re, s, k + 1, i, [sp EXCEPT ![n.g] = <<i, 0>>])
          [] n.t = "close" ->
               Walk(re, s, k + 1, i, [sp EXCEPT ![n.g] = <<sp[n.g][1], i>>])

\* the nodes re[k..] matched against s from position i, groups so far in sp,
\* backtracking over the repetitions in the order Python tries them
RECURSIVE MatchFrom(_, _, _, _, _)
MatchFrom(re, s, k, i, sp) ==
    LET w == Walk(re, s, k, i, sp)
    IN  IF ~w.ok THEN None
        ELSE IF w.k > Len(re)
        THEN [ok |-> TRUE, span |-> [w.sp EXCEPT ![0] = <<w.sp[0][1], w.i>>]]
        ELSE
        LET n == re[w.k]
            \* the rest of the expression, tried after every repetition end
            tried == {[at |-> j, m |-> MatchFrom(re, s, w.k + 1, j, w.sp)] :
                        j \in (w.i + n.min)..RunEnd(s, w.i, n)}
            good == {x \in tried : x.m.ok}
        IN  IF good = {} THEN None
            ELSE IF n.t = "greedy"
            \* longest repetition first
            THEN (CHOOSE x \in good : \A y \in good : x.at >= y.at).m
            \* shortest repetition first
            ELSE (CHOOSE x \in good : \A y \in good : x.at <= y.at).m

\* re.match at position i
MatchAt(re, s, i) ==
    MatchFrom(re, s, 1, i, [g \in 0..NGroups |-> IF g = 0 THEN <<i, 0>> ELSE <<0, 0>>])

\* re.search(re, s, re.MULTILINE | re.DOTALL): the match at the leftmost
\* position that has one
re_search(re, s) ==
    LET starts == {i \in 1..(Len(s) + 1) : MatchAt(re, s, i).ok}
    IN  IF starts = {} THEN None ELSE MatchAt(re, s, SetMin(starts))

\* matches.group(g)
group(s, m, g) == Slice(s, m.span[g][1], m.span[g][2])

(***************************************************************************)
(* The request: the arguments the caller hands to the module.  Every       *)
(* argument is either given with a value or not given.                     *)
(***************************************************************************)
Given(v) == [given |-> TRUE, value |-> v]

\* an argument that is not given: Python's None (the value is not read)
NotGiven(v) == [given |-> FALSE, value |-> v]

\* the argument spec of lines 121-130
fields ==
    [ dest           |-> [required |-> TRUE,  type |-> "str",     has_default |-> FALSE],
      count          |-> [required |-> FALSE, type |-> "int",     has_default |-> TRUE],
      v4             |-> [required |-> FALSE, type |-> "boolean", has_default |-> FALSE],
      v6             |-> [required |-> FALSE, type |-> "boolean", has_default |-> FALSE],
      interface_name |-> [required |-> FALSE, type |-> "str",     has_default |-> FALSE],
      interface_ip   |-> [required |-> FALSE, type |-> "str",     has_default |-> FALSE],
      interval       |-> [required |-> FALSE, type |-> "int",     has_default |-> FALSE],
      packet_size    |-> [required |-> FALSE, type |-> "int",     has_default |-> FALSE] ]

\* "default": 2 of line 123
DefaultCount == 2

OptionNames == {"v4", "v6", "interface_name", "interface_ip", "interval", "packet_size"}

Localhost == <<"1","2","7",".","0",".","0",".","1">>

\* destinations a caller may give: the empty text, an address, a text with
\* blanks in it
Dests == { <<>>, Localhost, <<"a"," ","b">> }

Counts == (0..MaxCount) \cup {12}

DestArgs == {NotGiven(<<>>)} \cup {Given(d) : d \in Dests}

CountArgs == {NotGiven(0)} \cup {Given(c) : c \in Counts}

Flags == {NotGiven(FALSE), Given(TRUE), Given(FALSE)}

IfNames == {NotGiven(<<>>), Given(<<"e","t","h","0">>)}

IfIps == {NotGiven(<<>>), Given(Localhost)}

Intervals == {NotGiven(0), Given(1), Given(5)}

Sizes == {NotGiven(0), Given(56)}

\* the optional arguments of a request that are given
GivenOptions(a) == {k \in OptionNames : a[k].given}

Requests ==
    { a \in [ dest : DestArgs, count : CountArgs, v4 : Flags, v6 : Flags,
              interface_name : IfNames, interface_ip : IfIps,
              interval : Intervals, packet_size : Sizes ] :
        Cardinality(GivenOptions(a)) <= MaxOpts }

(***************************************************************************)
(* AnsibleModule(argument_spec=fields), line 132: the framework validates  *)
(* the arguments before main goes on.  A required argument that is not     *)
(* given fails the module.  The type of every given argument is looked up  *)
(* among the framework's type checkers; a type name that is not one of     *)
(* them ("boolean" is not: the checker is named "bool") fails the module.  *)
(* An argument with a default that is not given takes the default.         *)
(***************************************************************************)
KnownTypes ==
    {"str", "list", "dict", "bool", "int", "float", "path", "raw",
     "jsonarg", "json", "bytes", "bits"}

MissingRequired(a) == {k \in DOMAIN fields : fields[k].required /\ ~a[k].given}

UnknownType(a) == {k \in DOMAIN fields : a[k].given /\ fields[k].type \notin KnownTypes}

ArgsAccepted(a) == MissingRequired(a) = {} /\ UnknownType(a) = {}

\* module.params
Params(a) ==
    [a EXCEPT !.count = IF a.count.given THEN a.count ELSE Given(DefaultCount)]

(***************************************************************************)
(* The command, lines 139-146.                                             *)
(***************************************************************************)
\* Python's truth value of an int
Truthy(n) == n # 0

\* BuildCmd with the destination appended before the count flag
BuildCmd_DestFirst(dest, count) ==
    << <<"p","i","n","g">> >>
      \o <<dest>>
      \o (IF Truthy(count) THEN << <<"-","c"," ">> \o IntStr(count) >> ELSE <<>>)

\* cmd = ["ping"]; if count: cmd.append(f"-c { count }"); cmd.append(dest)
BuildCmd(dest, count) ==
    << <<"p","i","n","g">> >>
      \o (IF Truthy(count) THEN << <<"-","c"," ">> \o IntStr(count) >> ELSE <<>>)
      \o <<dest>>

\* run_cmd = " ".join(cmd)
RunCmd(cmd) == Join(<<" ">>, cmd)

(***************************************************************************)
(* What ping prints.  A run of ping is described by its shape, the number  *)
(* of reply lines and its statistics; Stdout formats it as iputils does    *)
(* (the sample of line 67).                                                *)
(***************************************************************************)
Header == <<"P","I","N","G"," ","1","2","7",".","0",".","0",".","1"," ","(","1","2","7",".","0",
       ".","0",".","1",")"," ","5","6","(","8","4",")"," ","b","y","t","e","s"," ","o","f"," ",
       "d","a","t","a",".","\n">>

ReplyLine(seq) == <<"6","4"," ","b","y","t","e","s"," ","f","r","o","m"," ","1","2","7",".","0",
       ".","0",".","1",":"," ","i","c","m","p","_","s","e","q","=">>
    \o NatStr(seq)
    \o <<" ","t","t","l","=","6","4"," ","t","i","m","e","=","0",".","0","6","1"," ","m","s",
       "\n">>

RECURSIVE Replies(_)
Replies(n) == IF n = 0 THEN <<>> ELSE Replies(n - 1) \o ReplyLine(n)

StatsHeader == <<"\n","-","-","-"," ","1","2","7",".","0",".","0",".","1"," ","p","i","n","g",
       " ","s","t","a","t","i","s","t","i","c","s"," ","-","-","-","\n">>

SummaryLine(st) ==
    NatStr(st.tx)
        \o <<" ","p","a","c","k","e","t","s"," ","t","r","a","n","s","m","i","t","t","e","d",
           ","," ">>
        \o NatStr(st.rx)
        \o <<" ","r","e","c","e","i","v","e","d",","," ">>
        \o st.loss
        \o <<"%"," ","p","a","c","k","e","t"," ","l","o","s","s",","," ","t","i","m","e"," ">>
        \o st.total
        \o <<"m","s","\n">>

RttLine(st) ==
    <<"r","t","t"," ","m","i","n","/","a","v","g","/","m","a","x","/","m","d","e","v"," ","=",
           " ">>
        \o st.min
        \o <<"/">>
        \o st.avg
        \o <<"/">>
        \o st.max
        \o <<"/">>
        \o st.mdev
        \o <<" ","m","s","\n">>

NotFound == <<"b","a","s","h",":"," ","p","i","n","g",":"," ","c","o","m","m","a","n","d"," ",
       "n","o","t"," ","f","o","u","n","d">>

\* the statistics of the sample run of line 67
Canonical ==
    [tx |-> 2, rx |-> 2, loss |-> <<"0">>, total |-> <<"1","0","1","3">>,
     min |-> <<"0",".","0","6","1">>, avg |-> <<"0",".","0","6","1">>, max |-> <<"0",".","0",
            "6","1">>, mdev |-> <<"0",".","0","0","0">>]

\* a run that lost one packet of three (iputils prints the fraction)
Lossy ==
    [tx |-> 3, rx |-> 2, loss |-> <<"3","3",".","3","3","3","3">>, total |-> <<"2","0","0","3">>,
     min |-> <<"0",".","0","4","5">>, avg |-> <<"0",".","1","2","0">>, max |-> <<"0",".","3",
            "0","0">>, mdev |-> <<"0",".","0","1","0">>]

\* a longer run
Long ==
    [tx |-> 12, rx |-> 6, loss |-> <<"5","0">>, total |-> <<"1","1","0","1","5">>,
     min |-> <<"1",".","5">>, avg |-> <<"1","0",".","2","5">>, max |-> <<"1","0","0">>,
            mdev |-> <<"9",".","9">>]

Stats == {Canonical, Lossy, Long}

Shapes == {"full", "norepl", "nortt", "cut", "nohead", "swapped", "garbage", "empty"}

Stdout(run) ==
    CASE run.shape = "full" ->
           Header \o Replies(run.n) \o StatsHeader \o SummaryLine(run.st) \o RttLine(run.st)
      \* no reply arrived: ping prints neither reply lines nor the rtt line
      [] run.shape = "norepl" -> Header \o StatsHeader \o SummaryLine(run.st)
      \* the rtt line is missing
      [] run.shape = "nortt" ->
           Header \o Replies(run.n) \o StatsHeader \o SummaryLine(run.st)
      \* the output stops after the reply lines
      [] run.shape = "cut" -> Header \o Replies(run.n)
      \* the PING line is missing
      [] run.shape = "nohead" ->
           Replies(run.n) \o StatsHeader \o SummaryLine(run.st) \o RttLine(run.st)
      \* the rtt line comes before the summary line
      [] run.shape = "swapped" ->
           Header \o Replies(run.n) \o StatsHeader \o RttLine(run.st) \o SummaryLine(run.st)
      [] run.shape = "garbage" -> NotFound
      [] run.shape = "empty" -> <<>>

\* the runs of the model: every full run, and one run of every other shape
Runs ==
    {[shape |-> "full", n |-> n, st |-> st] : n \in 1..MaxReplies, st \in Stats}
      \cup {[shape |-> sh, n |-> 1, st |-> Canonical] : sh \in Shapes \ {"full"}}

ReturnCodes == {-1, 0, 1, 2}

Stderrs == { <<>>, NotFound }

\* the texts the command runner can return as stdout
Stdouts == {Stdout(run) : run \in Runs}

(***************************************************************************)
(* re.search(regex, out, re.MULTILINE | re.DOTALL) of line 153, evaluated  *)
(* once for each text the command runner can return.                       *)
(***************************************************************************)
Searched == [o \in Stdouts |-> re_search(regex, o)]

(***************************************************************************)
(* The framework's two ways to end the module.                             *)
(*   exit_json prints its keyword arguments as the result and exits.       *)
(*   fail_json prints its keyword arguments with failed = True and exits;  *)
(*   msg is a required argument of it, and a call without msg raises       *)
(*   before anything is printed.                                           *)
(* Both give the results printed and whether an exception was raised.      *)
(***************************************************************************)
exit_json(kwargs) == [printed |-> <<kwargs>>, raised |-> FALSE]

fail_json(kwargs) ==
    IF "msg" \in DOMAIN kwargs
    THEN [printed |-> <<kwargs @@ [failed |-> TRUE]>>, raised |-> FALSE]
    ELSE [printed |-> <<>>, raised |-> TRUE]

\* the failure the framework reports for arguments it does not accept
ArgsFailure == fail_json([msg |-> "invalid arguments"])

\* IsExecFailure taking every code but 0 for the failure
IsExecFailure_NonZero(code) == code # 0

\* if rc == 1, line 149
IsExecFailure(code) == code = 1

\* IsSuccess taking every code that is left after the failure check
IsSuccess_Any(code) == code # 1

\* if rc == 0, line 152
IsSuccess(code) == code = 0

\* the keyword arguments of fail_json, line 150
FailKwargs(o, code, e, c) ==
    [changed |-> FALSE, stdout |-> o, rc |-> code, stderr |-> e, cmd |-> c]

\* Res with the unit suffixes of the loss and of the total time cut off
Res_Stripped(o, m) ==
    [ packet_tx   |-> group(o, m, 7),
      packet_rx   |-> group(o, m, 8),
      packet_loss |-> Slice(o, m.span[9][1], m.span[9][2] - 1),
      time_total  |-> Slice(o, m.span[10][1], m.span[10][2] - 2),
      time_min    |-> group(o, m, 11),
      time_avg    |-> group(o, m, 12),
      time_max    |-> group(o, m, 13) ]

\* res, lines 155-162
Res(o, m) ==
    [ packet_tx   |-> group(o, m, 7),
      packet_rx   |-> group(o, m, 8),
      packet_loss |-> group(o, m, 9),
      time_total  |-> group(o, m, 10),
      time_min    |-> group(o, m, 11),
      time_avg    |-> group(o, m, 12),
      time_max    |-> group(o, m, 13) ]

\* the keyword arguments of exit_json, lines 164-166
ParsedKwargs(o, code, e, c, r) ==
    [changed |-> FALSE, stdout |-> o, rc |-> code, stderr |-> e, cmd |-> c,
     parsed |-> r]

\* PlainKwargs with stdout and stderr taken for each other
PlainKwargs_Swapped(o, code, e, c) ==
    [changed |-> FALSE, stdout |-> e, rc |-> code, stderr |-> o, cmd |-> c]

\* the keyword arguments of exit_json, line 168
PlainKwargs(o, code, e, c) ==
    [changed |-> FALSE, stdout |-> o, rc |-> code, stderr |-> e, cmd |-> c]

(***************************************************************************)
(* The state of one invocation of main.                                    *)
(*   args      the arguments of the caller                                 *)
(*   pc        where main is                                               *)
(*   params    module.params                                               *)
(*   cmd, run_cmd, rc, out, err, matches   main's variables                *)
(*   proc      the command runner's side: the command line it was handed,  *)
(*             the ping run it started and what it returned                *)
(*   executed  how many times the command runner was invoked               *)
(*   searches  how many times re.search was called                         *)
(*   results   the results printed so far                                  *)
(*   raised    an exception left main                                      *)
(***************************************************************************)
VARIABLES args, pc, params, cmd, run_cmd, rc, out, err, matches,
          proc, executed, searches, results, raised

vars == <<args, pc, params, cmd, run_cmd, rc, out, err, matches,
          proc, executed, searches, results, raised>>

NoProc == [cmd |-> <<>>, run |-> [shape |-> "empty", n |-> 1, st |-> Canonical],
           rc |-> 0, out |-> <<>>, err |-> <<>>]

Init ==
    /\ args \in Requests
    /\ pc = "module"
    /\ params = args
    /\ cmd = <<>>
    /\ run_cmd = <<>>
    /\ rc = 0
    /\ out = <<>>
    /\ err = <<>>
    /\ matches = None
    /\ proc = NoProc
    /\ executed = 0
    /\ searches = 0
    /\ results = <<>>
    /\ raised = FALSE

\* the module ends: what the framework call printed or raised
End(ending) ==
    /\ results' = results \o ending.printed
    /\ raised' = ending.raised
    /\ pc' = "done"

\* module = AnsibleModule(argument_spec=fields), line 132
NewModule ==
    /\ pc = "module"
    /\ \/ /\ ArgsAccepted(args)
          /\ params' = Params(args)
          /\ pc' = "params"
          /\ UNCHANGED <<results, raised>>
       \/ /\ ~ArgsAccepted(args)
          /\ End(ArgsFailure)
          /\ UNCHANGED params
    /\ UNCHANGED <<args, cmd, run_cmd, rc, out, err, matches, proc, executed, searches>>

\* lines 135-146
BuildCommand ==
    /\ pc = "params"
    /\ cmd' = BuildCmd(params.dest.value, params.count.value)
    /\ run_cmd' = RunCmd(cmd')
    /\ pc' = "built"
    /\ UNCHANGED <<args, params, rc, out, err, matches, proc, executed, searches,
                   results, raised>>

\* rc, out, err = module.run_command(run_cmd), line 147: the runner starts
\* ping, which runs in some way and ends with some return code
RunCommand ==
    /\ pc = "built"
    /\ \E run \in Runs, code \in ReturnCodes, e \in Stderrs :
          /\ proc' = [cmd |-> run_cmd, run |-> run, rc |-> code,
                      out |-> Stdout(run), err |-> e]
          /\ rc' = code
          /\ out' = Stdout(run)
          /\ err' = e
    /\ executed' = executed + 1
    /\ pc' = "ran"
    /\ UNCHANGED <<args, params, cmd, run_cmd, matches, searches, results, raised>>

\* lines 149-150
CheckFailure ==
    /\ pc = "ran"
    /\ \/ /\ IsExecFailure(rc)
          /\ End(fail_json(FailKwargs(out, rc, err, run_cmd)))
       \/ /\ ~IsExecFailure(rc)
          /\ pc' = "checked"
          /\ UNCHANGED <<results, raised>>
    /\ UNCHANGED <<args, params, cmd, run_cmd, rc, out, err, matches, proc,
                   executed, searches>>

\* lines 152-153
Search ==
    /\ pc = "checked"
    /\ \/ /\ IsSuccess(rc)
          /\ matches' = Searched[out]
          /\ searches' = searches + 1
          /\ pc' = "searched"
       \/ /\ ~IsSuccess(rc)
          /\ pc' = "last"
          /\ UNCHANGED <<matches, searches>>
    /\ UNCHANGED <<args, params, cmd, run_cmd, rc, out, err, proc, executed,
                   results, raised>>

\* lines 154-166
ExitParsed ==
    /\ pc = "searched"
    /\ \/ /\ matches.ok
          /\ End(exit_json(ParsedKwargs(out, rc, err, run_cmd, Res(out, matches))))
       \/ /\ ~matches.ok
          /\ pc' = "last"
          /\ UNCHANGED <<results, raised>>
    /\ UNCHANGED <<args, params, cmd, run_cmd, rc, out, err, matches, proc,
                   executed, searches>>

\* line 168
ExitPlain ==
    /\ pc = "last"
    /\ End(exit_json(PlainKwargs(out, rc, err, run_cmd)))
    /\ UNCHANGED <<args, params, cmd, run_cmd, rc, out, err, matches, proc,
                   executed, searches>>

Next ==
    \/ NewModule
    \/ BuildCommand
    \/ RunCommand
    \/ CheckFailure
    \/ Search
    \/ ExitParsed
    \/ ExitPlain

Spec == Init /\ [][Next]_vars

(***************************************************************************)
(* What the claims speak of.                                               *)
(***************************************************************************)
\* main has built the command
Built == pc \notin {"module", "params"} /\ cmd # <<>>

\* the command runner has returned
Ran == executed > 0

\* the results printed that carry a parsed record
ParsedResults == {i \in DOMAIN results : "parsed" \in DOMAIN results[i]}

HasParsed == ParsedResults # {}

\* the parsed record of the result that carries one
Parsed == results[CHOOSE i \in ParsedResults : TRUE].parsed

IsFailed(r) == "failed" \in DOMAIN r /\ r.failed

PlainKeys == {"changed", "stdout", "rc", "stderr", "cmd"}

HasBlank(text) == \E i \in DOMAIN text : text[i] \in Space

\* the tokens of a command line: its maximal blank-free pieces, in order
Tokens(text) ==
    LET starts == {i \in DOMAIN text :
                     text[i] # " " /\ (i = 1 \/ text[i - 1] = " ")}
        start(k) == CHOOSE i \in starts : Cardinality({j \in starts : j <= i}) = k
        stop(i) == IF \E j \in i..Len(text) : text[j] = " "
                   THEN CHOOSE j \in i..Len(text) :
                          text[j] = " " /\ \A q \in i..(j - 1) : text[q] # " "
                   ELSE Len(text) + 1
    IN  [k \in 1..Cardinality(starts) |-> Slice(text, start(k), stop(start(k)))]

IsNumber(text) == text # <<>> /\ \A i \in DOMAIN text : text[i] \in Digit

DigitValue(c) == CHOOSE d \in 0..9 : DigitChars[d + 1] = c

\* the number a text of digits denotes
RECURSIVE NumberOf(_)
NumberOf(text) ==
    IF text = <<>> THEN 0
    ELSE 10 * NumberOf(SubSeq(text, 1, Len(text) - 1)) + DigitValue(text[Len(text)])

\* the positions of the count flag among the tokens
CountFlags(toks) == {k \in DOMAIN toks : toks[k] = <<"-","c">>}

\* does text consist of one digit or more followed by suffix
DigitsThen(text, suffix) ==
    /\ Len(text) > Len(suffix)
    /\ SubSeq(text, Len(text) - Len(suffix) + 1, Len(text)) = suffix
    /\ IsNumber(SubSeq(text, 1, Len(text) - Len(suffix)))

\* does text occur somewhere in whole
OccursIn(whole, text) == \E i \in 1..(Len(whole) + 1) : LitAt(whole, i, text)

\* the statistics of a run as the texts ping printed them
Printed(st) ==
    [ packet_tx   |-> NatStr(st.tx),
      packet_rx   |-> NatStr(st.rx),
      packet_loss |-> st.loss \o <<"%">>,
      time_total  |-> st.total \o <<"m","s">>,
      time_min    |-> st.min,
      time_avg    |-> st.avg,
      time_max    |-> st.max ]

\* a request is valid: its destination is given, not empty and one token,
\* and its count is not negative
ValidRequest ==
    /\ args.dest.given
    /\ args.dest.value # <<>>
    /\ ~HasBlank(args.dest.value)
    /\ params.count.value >= 0

(***************************************************************************)
(* C1, as stated: for every valid request with count = N, the built        *)
(* command has exactly one count flag, with value N, begins with ping and  *)
(* ends with the destination token.                                        *)
(***************************************************************************)
C1_OneCountFlag ==
    (Built /\ ValidRequest) =>
        LET toks == Tokens(run_cmd)
        IN  /\ toks # <<>>
            /\ toks[1] = <<"p","i","n","g">>
            /\ toks[Len(toks)] = params.dest.value
            /\ Cardinality(CountFlags(toks)) = 1
            /\ \A k \in CountFlags(toks) :
                  /\ k < Len(toks)
                  /\ IsNumber(toks[k + 1])
                  /\ NumberOf(toks[k + 1]) = params.count.value

(***************************************************************************)
(* C1, amended: for every valid request the built command is exactly the   *)
(* tokens ping, -c, N and the destination when the count N is not zero,    *)
(* and exactly the tokens ping and the destination, with no count flag,    *)
(* when the count is zero.                                                 *)
(***************************************************************************)
C1_CommandTokens ==
    (Built /\ ValidRequest) =>
        LET toks == Tokens(run_cmd)
            n == params.count.value
        IN  IF n # 0
            THEN /\ Len(toks) = 4
                 /\ toks[1] = <<"p","i","n","g">>
                 /\ toks[2] = <<"-","c">>
                 /\ IsNumber(toks[3]) /\ NumberOf(toks[3]) = n
                 /\ toks[4] = params.dest.value
            ELSE toks = << <<"p","i","n","g">>, params.dest.value >>

\* a command built for a valid request with a count of two digits
C1_Witness ==
    /\ Built /\ ValidRequest
    /\ args.count.given /\ args.count.value = 12
    /\ run_cmd = <<"p","i","n","g"," ","-","c"," ","1","2"," ","1","2","7",".","0",".","0",".","1">>

(***************************************************************************)
(* C2: when the command returns code 1, the invocation ends in a failure   *)
(* result that carries the raw stdout, the raw stderr, rc = 1 and the      *)
(* command line and no parsed record, and the parser was not run.          *)
(***************************************************************************)
C2_FailureResult ==
    (pc = "done" /\ Ran /\ proc.rc = 1) =>
        /\ ~raised
        /\ Len(results) = 1
        /\ IsFailed(results[1])
        /\ PlainKeys \subseteq DOMAIN results[1]
        /\ results[1].stdout = proc.out
        /\ results[1].stderr = proc.err
        /\ results[1].rc = 1
        /\ results[1].cmd = proc.cmd
        /\ "parsed" \notin DOMAIN results[1]
        /\ searches = 0

C5_LiteralFields ==
    HasParsed => Parsed = Printed(proc.run.st)

(***************************************************************************)
(* C6: every result printed after the command ran carries stdout, stderr   *)
(* and rc exactly as the command runner returned them, and cmd exactly as  *)
(* the command line the runner was handed.                                 *)
(***************************************************************************)
C6_RawFields ==
    \A i \in DOMAIN results :
        Ran =>
            /\ PlainKeys \subseteq DOMAIN results[i]
            /\ results[i].stdout = proc.out
            /\ results[i].stderr = proc.err
            /\ results[i].rc = proc.rc
            /\ results[i].cmd = proc.cmd

\* a result printed after a run whose stdout and stderr differ
C6_Witness ==
    /\ pc = "done" /\ Ran /\ results # <<>>
    /\ proc.err # <<>> /\ proc.out # proc.err
    /\ proc.cmd # <<>>

(***************************************************************************)
(* C7: for a request whose destination is missing or is the empty text,    *)
(* the external command is never executed.                                 *)
(***************************************************************************)
C7_NoDestNoRun ==
    (~args.dest.given \/ args.dest.value = <<>>) => executed = 0

(***************************************************************************)
(* C8: an invocation that passed validation runs the command exactly once, *)
(* searches at most once and only after the command has returned, and      *)
(* ends with exactly one result printed.                                   *)
(***************************************************************************)
C8_OneResult ==
    /\ executed <= 1
    /\ searches <= 1
    /\ searches > 0 => Ran
    /\ Len(results) <= 1
    /\ (pc = "done" /\ ArgsAccepted(args)) =>
          /\ executed = 1
          /\ Len(results) = 1
          /\ ~raised

(***************************************************************************)
(* C9: the options v4, v6, interface_name, interface_ip, interval and      *)
(* packet_size are accepted without error (a valid request is not         *)
(* rejected, whatever options it gives), and the command built is the one  *)
(* built for every request with the same dest and count.                   *)
(***************************************************************************)
C9_OptionsAccepted ==
    /\ ValidRequest => ~(pc = "done" /\ ~Ran)
    /\ Built =>
          \A a \in Requests :
              (a.dest = args.dest /\ a.count = args.count) =>
                  RunCmd(BuildCmd(Params(a).dest.value, Params(a).count.value))
                      = run_cmd

====
